---------------------------- MODULE Spec2Model ----------------------------
(***************************************************************************)
(* A model of the par-map crate (src/src/lib.rs): the iterator adaptors    *)
(* par_map, par_flat_map, pack, par_packed_map and par_packed_flat_map.    *)
(*                                                                         *)
(* One behaviour follows one adaptor, built over one source, from its      *)
(* construction to its exhaustion or its drop.  The consumer is the single *)
(* thread that owns the adaptor; the workers are the threads of the        *)
(* adaptor's CpuPool.  The consumer's next() is split at its only blocking *)
(* point, future.wait().                                                   *)
(***************************************************************************)
EXTENDS Integers, Sequences, FiniteSets, TLC

(***************************************************************************)
(* Bounds of the model.                                                    *)
(***************************************************************************)
MaxLen == 4
MaxThreads == 2
MaxNb == 2
MaxEndCalls == 2

\* The values the source yields.  Two tell any order of the results of the
\* map adaptors and of pack from any other; the flat_map adaptors get a third,
\* whose expansion is empty.
Items(k) == IF k \in {"flat_map", "packed_flat_map"} THEN {0, 1, 2} ELSE {1, 2}

Kinds == {"map", "flat_map", "pack", "packed_map", "packed_flat_map"}

VARIABLES
    kind,         \* which adaptor this behaviour builds
    src,          \* the items the underlying iterator yields, in order
    nb,           \* Pack.nb
    num_threads,  \* num_cpus::get()
    panicOn,      \* the items on which the closure f panics
    pos,          \* how many items the underlying iterator has yielded
    queue,        \* Map.queue / FlatMap.queue: the futures, as task ids
    tasks,        \* every closure handed to pool.spawn_fn, in spawn order
    cur_iter,     \* FlatMap.cur_iter: what is left of the current Vec
    pc,           \* where the consumer is
    round,        \* the counter of the constructor's loop
    fut,          \* the future next() is waiting on (0: none)
    hist,         \* what the calls of next() have returned so far
    runningAtDrop \* the tasks a worker was running when the adaptor was dropped

vars == <<kind, src, nb, num_threads, panicOn, pos, queue, tasks, cur_iter,
          pc, round, fut, hist, runningAtDrop>>

params == <<kind, src, nb, num_threads, panicOn>>

-----------------------------------------------------------------------------
(***************************************************************************)
(* Helpers.                                                                *)
(***************************************************************************)
Min(a, b) == IF a < b THEN a ELSE b

SeqsUpTo(S, n) == UNION {[1..m -> S] : m \in 0..n}

RECURSIVE Flatten(_)
Flatten(ss) == IF ss = <<>> THEN <<>> ELSE Head(ss) \o Flatten(Tail(ss))

IsPrefix(s, t) == Len(s) <= Len(t) /\ SubSeq(t, 1, Len(s)) = s

\* What a call of next() returned.
SomeEv(v) == [tag |-> "some", val |-> v]
NoneEv == [tag |-> "none"]
PanicEv == [tag |-> "panic"]

IsSome(e) == e.tag = "some"

-----------------------------------------------------------------------------
(***************************************************************************)
(* The closures.  f is the caller's; the model takes the closures of the   *)
(* crate's examples, made to panic on the items of panicOn.                *)
(***************************************************************************)
\* |x| 2 * x
MapF(x) == 2 * x

\* The sets of items f may panic on: none, or one value.
PanicSets(k) == {{}} \cup {{x} : x \in Items(k)}

\* An item's expansion: x elements for item x, none for 0.
FlatF(x) == [j \in 1..x |-> 10 * x + j]

FPanics(x) == x \in panicOn

\* PackedMapF with the batch's results in reverse order.
PackedMapFReversed(batch) ==
    [j \in 1..Len(batch) |-> MapF(batch[Len(batch) + 1 - j])]

\* par_packed_map's closure: iter.into_iter().map(move |i| f(i)), which the
\* task collects.
PackedMapF(batch) == [j \in 1..Len(batch) |-> MapF(batch[j])]

\* PackedFlatMapF with f applied to the batch's first item only.
PackedFlatMapFFirstOnly(batch) == FlatF(batch[1])

\* par_packed_flat_map's closure: iter.into_iter().flat_map(move |i| f(i)).
PackedFlatMapF(batch) == Flatten([j \in 1..Len(batch) |-> FlatF(batch[j])])

PackedFPanics(batch) == \E j \in 1..Len(batch) : FPanics(batch[j])

\* Whether the closure a task runs panics, and what it returns if not:
\* Ok(f(item)) in Map::spawn, Ok(f(item).into_iter().collect()) in
\* FlatMap::spawn.
TaskPanics(item) ==
    IF kind \in {"packed_map", "packed_flat_map"}
    THEN PackedFPanics(item)
    ELSE FPanics(item)

TaskResult(item) ==
    CASE kind = "map" -> MapF(item)
      [] kind = "flat_map" -> FlatF(item)
      [] kind = "packed_map" -> PackedMapF(item)
      [] kind = "packed_flat_map" -> PackedFlatMapF(item)

-----------------------------------------------------------------------------
(***************************************************************************)
(* The iterators the adaptors pull from.                                   *)
(***************************************************************************)
\* An entry of src that stands for a None of an iterator that is not fused:
\* next() returns None there, and the following item at the call after.
Gap == 0 - 1

\* The underlying iterator's next(), at position p.
SrcNext(p) ==
    IF p < Len(src)
    THEN IF src[p + 1] = Gap
         THEN [some |-> FALSE, pos |-> p + 1]
         ELSE [some |-> TRUE, item |-> src[p + 1], pos |-> p + 1]
    ELSE [some |-> FALSE, pos |-> p]

\* PackNext with take(max(self.nb, 1)) for take(self.nb).
PackNextAtLeastOne(p) ==
    LET item == SubSeq(src, p + 1, Min(p + (IF nb = 0 THEN 1 ELSE nb), Len(src)))
    IN  IF item = <<>>
        THEN [some |-> FALSE, pos |-> p]
        ELSE [some |-> TRUE, item |-> item, pos |-> p + Len(item)]

\* PackNext with take(self.nb + 1) for take(self.nb).
PackNextTakesOneMore(p) ==
    LET item == SubSeq(src, p + 1, Min(p + nb + 1, Len(src)))
    IN  IF item = <<>>
        THEN [some |-> FALSE, pos |-> p]
        ELSE [some |-> TRUE, item |-> item, pos |-> p + Len(item)]

\* Pack::next: self.iter.by_ref().take(self.nb).collect(), None if empty.
PackNext(p) ==
    LET item == SubSeq(src, p + 1, Min(p + nb, Len(src)))
    IN  IF item = <<>>
        THEN [some |-> FALSE, pos |-> p]
        ELSE [some |-> TRUE, item |-> item, pos |-> p + Len(item)]

\* self.iter.next() in spawn: the packed adaptors are built on self.pack(nb).
IterNext(p) ==
    IF kind \in {"packed_map", "packed_flat_map"} THEN PackNext(p) ELSE SrcNext(p)

-----------------------------------------------------------------------------
(***************************************************************************)
(* spawn: pull one item, hand its closure to the pool, push the future at  *)
(* the back of the queue.  Given the queue, the tasks and the position, it *)
(* returns the three as spawn leaves them.                                 *)
(***************************************************************************)
\* NewTask with the closure kept by the future and never given to the pool.
NewTaskNotSpawned(item) == [item |-> item, st |-> "unspawned"]

NewTask(item) == [item |-> item, st |-> "queued"]

\* MapSpawn with push_front for push_back.
MapSpawnPushFront(q, ts, p) ==
    LET nx == IterNext(p)
    IN  IF ~nx.some
        THEN [queue |-> q, tasks |-> ts, pos |-> nx.pos]
        ELSE [queue |-> <<Len(ts) + 1>> \o q,
              tasks |-> Append(ts, NewTask(nx.item)),
              pos |-> nx.pos]

MapSpawn(q, ts, p) ==
    LET nx == IterNext(p)
    IN  IF ~nx.some
        THEN [queue |-> q, tasks |-> ts, pos |-> nx.pos]
        ELSE [queue |-> Append(q, Len(ts) + 1),
              tasks |-> Append(ts, NewTask(nx.item)),
              pos |-> nx.pos]

\* FlatMapSpawn with push_front for push_back.
FlatMapSpawnPushFront(q, ts, p) ==
    LET nx == IterNext(p)
    IN  IF ~nx.some
        THEN [queue |-> q, tasks |-> ts, pos |-> nx.pos]
        ELSE [queue |-> <<Len(ts) + 1>> \o q,
              tasks |-> Append(ts, NewTask(nx.item)),
              pos |-> nx.pos]

FlatMapSpawn(q, ts, p) ==
    LET nx == IterNext(p)
    IN  IF ~nx.some
        THEN [queue |-> q, tasks |-> ts, pos |-> nx.pos]
        ELSE [queue |-> Append(q, Len(ts) + 1),
              tasks |-> Append(ts, NewTask(nx.item)),
              pos |-> nx.pos]

\* for _ in 0..num_threads * 2
PrefillRounds == num_threads * 2

IsFlat == kind \in {"flat_map", "packed_map", "packed_flat_map"}

-----------------------------------------------------------------------------
(***************************************************************************)
(* The initial state: the adaptor's struct is built, its loop of spawns    *)
(* has not started.  pack() builds a Pack and does nothing else.           *)
(***************************************************************************)
InitWith(threads) ==
    /\ kind \in Kinds
    /\ src \in SeqsUpTo(Items(kind), MaxLen)
    /\ nb \in IF kind \in {"map", "flat_map"} THEN {0} ELSE 0..MaxNb
    /\ num_threads \in IF kind = "pack" THEN {1} ELSE threads
    /\ panicOn \in IF kind = "pack" THEN {{}} ELSE PanicSets(kind)
    /\ pos = 0
    /\ queue = <<>>
    /\ tasks = <<>>
    /\ cur_iter = <<>>
    /\ pc = IF kind = "pack" THEN "idle" ELSE "construct"
    /\ round = 0
    /\ fut = 0
    /\ hist = <<>>
    /\ runningAtDrop = {}

\* num_cpus::get() gives the number of the machine's logical CPUs: one or
\* more.
Init == InitWith(1..MaxThreads)

-----------------------------------------------------------------------------
(***************************************************************************)
(* The pool's workers.  The pool hands its closures to its threads in the  *)
(* order they were spawned; a thread runs one closure at a time, to its    *)
(* end.                                                                    *)
(***************************************************************************)
TaskIds == 1..Len(tasks)

Running == {t \in TaskIds : tasks[t].st = "running"}

Finished(t) == tasks[t].st \in {"done", "panicked"}

\* WaitPanics with the closure's panic swallowed.
WaitPanicsNever(t) == FALSE

\* future.wait().unwrap(): a panic of the closure is raised in the caller.
WaitPanics(t) == tasks[t].st = "panicked"

\* The closure the pool hands out next: the oldest one no thread has taken.
NextQueued(t) ==
    /\ tasks[t].st = "queued"
    /\ \A u \in 1..(t - 1) : tasks[u].st # "queued"

\* A free thread of the pool takes the next closure.
WorkerStart ==
    /\ kind # "pack"
    /\ Cardinality(Running) < num_threads
    /\ \E t \in TaskIds :
        /\ NextQueued(t)
        /\ tasks' = [tasks EXCEPT ![t].st = "running"]
    /\ UNCHANGED <<params, pos, queue, cur_iter, pc, round, fut, hist,
                   runningAtDrop>>

\* A thread reaches the end of its closure: f returned, or f panicked.
WorkerFinish ==
    /\ \E t \in Running :
        tasks' = [tasks EXCEPT ![t].st =
                     IF TaskPanics(tasks[t].item) THEN "panicked" ELSE "done"]
    /\ UNCHANGED <<params, pos, queue, cur_iter, pc, round, fut, hist,
                   runningAtDrop>>

\* Once the adaptor is dropped, so are its pool and its futures.  Whether
\* the pool still runs a closure no thread had taken is the pool's matter:
\* it may run it (WorkerStart) or discard it.
WorkerDiscard ==
    /\ pc = "dropped"
    /\ \E t \in TaskIds :
        /\ NextQueued(t)
        /\ tasks' = [tasks EXCEPT ![t].st = "discarded"]
    /\ UNCHANGED <<params, pos, queue, cur_iter, pc, round, fut, hist,
                   runningAtDrop>>

-----------------------------------------------------------------------------
(***************************************************************************)
(* The consumer: the constructors.                                         *)
(***************************************************************************)
\* ParMapRounds with 0..=num_threads * 2 for 0..num_threads * 2.
ParMapRoundsInclusive == num_threads * 2 + 1

\* par_map: for _ in 0..num_threads * 2 { res.spawn(); }
ParMapRounds == num_threads * 2

ParMap ==
    /\ pc = "construct"
    /\ kind = "map"
    /\ round < ParMapRounds
    /\ LET s == MapSpawn(queue, tasks, pos)
       IN  /\ queue' = s.queue
           /\ tasks' = s.tasks
           /\ pos' = s.pos
    /\ round' = round + 1
    /\ UNCHANGED <<params, cur_iter, pc, fut, hist, runningAtDrop>>

ParMapReturn ==
    /\ pc = "construct"
    /\ kind = "map"
    /\ round >= ParMapRounds
    /\ pc' = "idle"
    /\ UNCHANGED <<params, pos, queue, tasks, cur_iter, round, fut, hist,
                   runningAtDrop>>

\* ParFlatMapRounds with 0..num_threads for 0..num_threads * 2.
ParFlatMapRoundsHalf == num_threads

\* par_flat_map: for _ in 0..num_threads * 2 { res.spawn(); }
ParFlatMapRounds == num_threads * 2

ParFlatMap ==
    /\ pc = "construct"
    /\ IsFlat
    /\ round < ParFlatMapRounds
    /\ LET s == FlatMapSpawn(queue, tasks, pos)
       IN  /\ queue' = s.queue
           /\ tasks' = s.tasks
           /\ pos' = s.pos
    /\ round' = round + 1
    /\ UNCHANGED <<params, cur_iter, pc, fut, hist, runningAtDrop>>

ParFlatMapReturn ==
    /\ pc = "construct"
    /\ IsFlat
    /\ round >= ParFlatMapRounds
    /\ pc' = "idle"
    /\ UNCHANGED <<params, pos, queue, tasks, cur_iter, round, fut, hist,
                   runningAtDrop>>

-----------------------------------------------------------------------------
(***************************************************************************)
(* The consumer: next().                                                   *)
(***************************************************************************)
NoneCount == Len(SelectSeq(hist, LAMBDA e : e.tag = "none"))

\* A call of next() that will return None is made only MaxEndCalls times.
MayCallAtEnd == NoneCount < MaxEndCalls

\* PopFront with pop_back for pop_front.
PopBack(q) == [future |-> q[Len(q)], rest |-> SubSeq(q, 1, Len(q) - 1)]

\* self.queue.pop_front(): the future taken, and the queue left.
PopFront(q) == [future |-> Head(q), rest |-> Tail(q)]

\* MapNext with spawn() called when the queue is empty.
MapNextSpawnsAtEnd ==
    /\ pc = "idle"
    /\ kind = "map"
    /\ IF queue = <<>>
       THEN /\ MayCallAtEnd
            /\ hist' = Append(hist, NoneEv)
            /\ LET s == MapSpawn(queue, tasks, pos)
               IN  /\ queue' = s.queue
                   /\ tasks' = s.tasks
                   /\ pos' = s.pos
            /\ UNCHANGED <<fut, pc>>
       ELSE /\ fut' = PopFront(queue).future
            /\ queue' = PopFront(queue).rest
            /\ pc' = "wait"
            /\ UNCHANGED <<hist, pos, tasks>>
    /\ UNCHANGED <<params, cur_iter, round, runningAtDrop>>

\* Map::next, up to future.wait(): None on an empty queue.
MapNext ==
    /\ pc = "idle"
    /\ kind = "map"
    /\ IF queue = <<>>
       THEN /\ MayCallAtEnd
            /\ hist' = Append(hist, NoneEv)
            /\ UNCHANGED <<queue, fut, pc>>
       ELSE /\ fut' = PopFront(queue).future
            /\ queue' = PopFront(queue).rest
            /\ pc' = "wait"
            /\ UNCHANGED hist
    /\ UNCHANGED <<params, pos, tasks, cur_iter, round, runningAtDrop>>

\* MapNextWait with a wait on every future of the queue, not on the popped
\* one only.
MapNextWaitJoinsAll ==
    /\ pc = "wait"
    /\ kind = "map"
    /\ Finished(fut)
    /\ \A j \in 1..Len(queue) : Finished(queue[j])
    /\ IF WaitPanics(fut)
       THEN /\ hist' = Append(hist, PanicEv)
            /\ UNCHANGED <<queue, tasks, pos>>
       ELSE LET s == MapSpawn(queue, tasks, pos)
            IN  /\ queue' = s.queue
                /\ tasks' = s.tasks
                /\ pos' = s.pos
                /\ hist' = Append(hist, SomeEv(TaskResult(tasks[fut].item)))
    /\ pc' = "idle"
    /\ fut' = 0
    /\ UNCHANGED <<params, cur_iter, round, runningAtDrop>>

\* MapNextWait with spawn() called twice.
MapNextWaitSpawnsTwice ==
    /\ pc = "wait"
    /\ kind = "map"
    /\ Finished(fut)
    /\ IF WaitPanics(fut)
       THEN /\ hist' = Append(hist, PanicEv)
            /\ UNCHANGED <<queue, tasks, pos>>
       ELSE LET s1 == MapSpawn(queue, tasks, pos)
                s == MapSpawn(s1.queue, s1.tasks, s1.pos)
            IN  /\ queue' = s.queue
                /\ tasks' = s.tasks
                /\ pos' = s.pos
                /\ hist' = Append(hist, SomeEv(TaskResult(tasks[fut].item)))
    /\ pc' = "idle"
    /\ fut' = 0
    /\ UNCHANGED <<params, cur_iter, round, runningAtDrop>>

\* Map::next, from future.wait(): unwrap() panics if the closure did, and
\* spawn() is then not reached.
MapNextWait ==
    /\ pc = "wait"
    /\ kind = "map"
    /\ Finished(fut)
    /\ IF WaitPanics(fut)
       THEN /\ hist' = Append(hist, PanicEv)
            /\ UNCHANGED <<queue, tasks, pos>>
       ELSE LET s == MapSpawn(queue, tasks, pos)
            IN  /\ queue' = s.queue
                /\ tasks' = s.tasks
                /\ pos' = s.pos
                /\ hist' = Append(hist, SomeEv(TaskResult(tasks[fut].item)))
    /\ pc' = "idle"
    /\ fut' = 0
    /\ UNCHANGED <<params, cur_iter, round, runningAtDrop>>

\* FlatMapNext with the queue looked at before cur_iter.
FlatMapNextPopsFirst ==
    /\ pc = "idle"
    /\ IsFlat
    /\ IF queue # <<>>
       THEN /\ fut' = PopFront(queue).future
            /\ queue' = PopFront(queue).rest
            /\ pc' = "wait"
            /\ UNCHANGED <<hist, cur_iter>>
       ELSE IF cur_iter # <<>>
       THEN /\ hist' = Append(hist, SomeEv(Head(cur_iter)))
            /\ cur_iter' = Tail(cur_iter)
            /\ UNCHANGED <<queue, fut, pc>>
       ELSE /\ MayCallAtEnd
            /\ hist' = Append(hist, NoneEv)
            /\ UNCHANGED <<queue, fut, pc, cur_iter>>
    /\ UNCHANGED <<params, pos, tasks, round, runningAtDrop>>

\* FlatMap::next, up to future.wait(): the next element of cur_iter if it has
\* one, else None on an empty queue.
FlatMapNext ==
    /\ pc = "idle"
    /\ IsFlat
    /\ IF cur_iter # <<>>
       THEN /\ hist' = Append(hist, SomeEv(Head(cur_iter)))
            /\ cur_iter' = Tail(cur_iter)
            /\ UNCHANGED <<queue, fut, pc>>
       ELSE IF queue = <<>>
       THEN /\ MayCallAtEnd
            /\ hist' = Append(hist, NoneEv)
            /\ UNCHANGED <<queue, fut, pc, cur_iter>>
       ELSE /\ fut' = PopFront(queue).future
            /\ queue' = PopFront(queue).rest
            /\ pc' = "wait"
            /\ UNCHANGED <<hist, cur_iter>>
    /\ UNCHANGED <<params, pos, tasks, round, runningAtDrop>>

\* FlatMap::next, from future.wait(): cur_iter becomes the task's Vec, spawn()
\* is called, and the loop goes round: it returns the Vec's first element, or,
\* the Vec being empty, pops the next future or returns None.
FlatMapNextWait ==
    /\ pc = "wait"
    /\ IsFlat
    /\ Finished(fut)
    /\ IF WaitPanics(fut)
       THEN /\ hist' = Append(hist, PanicEv)
            /\ pc' = "idle"
            /\ fut' = 0
            /\ UNCHANGED <<queue, tasks, pos, cur_iter>>
       ELSE LET v == TaskResult(tasks[fut].item)
                s == FlatMapSpawn(queue, tasks, pos)
            IN  /\ tasks' = s.tasks
                /\ pos' = s.pos
                /\ IF v # <<>>
                   THEN /\ hist' = Append(hist, SomeEv(Head(v)))
                        /\ cur_iter' = Tail(v)
                        /\ queue' = s.queue
                        /\ pc' = "idle"
                        /\ fut' = 0
                   ELSE IF s.queue = <<>>
                   THEN /\ hist' = Append(hist, NoneEv)
                        /\ cur_iter' = v
                        /\ queue' = s.queue
                        /\ pc' = "idle"
                        /\ fut' = 0
                   ELSE /\ fut' = PopFront(s.queue).future
                        /\ queue' = PopFront(s.queue).rest
                        /\ cur_iter' = v
                        /\ pc' = "wait"
                        /\ UNCHANGED hist
    /\ UNCHANGED <<params, round, runningAtDrop>>

\* Pack::next, called by the consumer of pack(nb).
PackIterNext ==
    /\ pc = "idle"
    /\ kind = "pack"
    /\ LET nx == PackNext(pos)
       IN  /\ pos' = nx.pos
           /\ IF nx.some
              THEN hist' = Append(hist, SomeEv(nx.item))
              ELSE /\ MayCallAtEnd
                   /\ hist' = Append(hist, NoneEv)
    /\ UNCHANGED <<params, queue, tasks, cur_iter, pc, round, fut,
                   runningAtDrop>>

\* Drop with the closures the threads are running stopped.
DropStopsRunning ==
    /\ pc = "idle"
    /\ kind # "pack"
    /\ pc' = "dropped"
    /\ runningAtDrop' = Running
    /\ tasks' = [t \in TaskIds |->
                    IF t \in Running
                    THEN [tasks[t] EXCEPT !.st = "discarded"]
                    ELSE tasks[t]]
    /\ UNCHANGED <<params, pos, queue, cur_iter, round, fut, hist>>

\* The consumer drops the adaptor between two calls of next(): the struct has
\* no Drop of its own, its fields (pool, queue, iter, f) are dropped.
Drop ==
    /\ pc = "idle"
    /\ kind # "pack"
    /\ pc' = "dropped"
    /\ runningAtDrop' = Running
    /\ UNCHANGED <<params, pos, queue, tasks, cur_iter, round, fut, hist>>

-----------------------------------------------------------------------------
(***************************************************************************)
(* Every adaptor, with a consumer that keeps it: what next() returns and   *)
(* what the queue holds do not change once the adaptor is dropped, which   *)
(* MapFairSpec below follows.                                              *)
(***************************************************************************)
Next ==
    \/ ParMap
    \/ ParMapReturn
    \/ ParFlatMap
    \/ ParFlatMapReturn
    \/ MapNext
    \/ MapNextWait
    \/ FlatMapNext
    \/ FlatMapNextWait
    \/ PackIterNext
    \/ WorkerStart
    \/ WorkerFinish

Spec == Init /\ [][Next]_vars

(***************************************************************************)
(* par_map and par_flat_map with any usize for num_cpus::get(), 0          *)
(* included.  The constructors hand the number as it is to CpuPool::new    *)
(* and to the bound of their loop.  What CpuPool::new(0) does is the pool  *)
(* crate's matter: it panics, or it builds a pool without a thread.        *)
(***************************************************************************)
AnyCpuInit == InitWith(0..MaxThreads) /\ kind \in {"map", "flat_map"}

\* CpuPool::new(num_threads) panics on 0: the constructor does not return.
CpuPoolNewPanics ==
    /\ pc = "construct"
    /\ round = 0
    /\ num_threads = 0
    /\ pc' = "failed"
    /\ UNCHANGED <<params, pos, queue, tasks, cur_iter, round, fut, hist,
                   runningAtDrop>>

AnyCpuNext ==
    \/ CpuPoolNewPanics
    \/ ParMap
    \/ ParMapReturn
    \/ ParFlatMap
    \/ ParFlatMapReturn
    \/ MapNext
    \/ MapNextWait
    \/ FlatMapNext
    \/ FlatMapNextWait
    \/ WorkerStart
    \/ WorkerFinish

AnyCpuSpec == AnyCpuInit /\ [][AnyCpuNext]_vars

(***************************************************************************)
(* par_map and par_flat_map over an iterator that is not fused: its next() *)
(* may return None and an item at a later call.  spawn() treats a None as  *)
(* the end of this call only.                                              *)
(***************************************************************************)
UnfusedInit ==
    /\ kind \in {"map", "flat_map"}
    /\ src \in SeqsUpTo(Items(kind) \cup {Gap}, MaxLen)
    /\ nb = 0
    /\ num_threads \in 1..MaxThreads
    /\ panicOn \in PanicSets(kind)
    /\ pos = 0
    /\ queue = <<>>
    /\ tasks = <<>>
    /\ cur_iter = <<>>
    /\ pc = "construct"
    /\ round = 0
    /\ fut = 0
    /\ hist = <<>>
    /\ runningAtDrop = {}

UnfusedNext ==
    \/ ParMap
    \/ ParMapReturn
    \/ ParFlatMap
    \/ ParFlatMapReturn
    \/ MapNext
    \/ MapNextWait
    \/ FlatMapNext
    \/ FlatMapNextWait
    \/ WorkerStart
    \/ WorkerFinish

UnfusedSpec == UnfusedInit /\ [][UnfusedNext]_vars

(***************************************************************************)
(* par_map alone, with a consumer that may drop the adaptor between two    *)
(* calls, and with the scheduling the threads give: a thread of the pool   *)
(* that can take or end a closure does so, and the consumer, while it      *)
(* holds the adaptor, goes on calling next().                              *)
(***************************************************************************)
MapInit == Init /\ kind = "map"

MapConsumer ==
    \/ ParMap
    \/ ParMapReturn
    \/ MapNext
    \/ MapNextWait

MapStep ==
    \/ MapConsumer
    \/ Drop
    \/ WorkerStart
    \/ WorkerFinish
    \/ WorkerDiscard

MapFairSpec ==
    /\ MapInit
    /\ [][MapStep]_vars
    /\ WF_vars(WorkerStart)
    /\ WF_vars(WorkerFinish)
    /\ WF_vars(MapConsumer)

-----------------------------------------------------------------------------
(***************************************************************************)
(* What the properties speak of.                                           *)
(***************************************************************************)
\* f returns for every item of the source.
NoPanic == \A j \in 1..Len(src) : ~FPanics(src[j])

\* f applied to each item in turn, as std's map and flat_map do.
MapSeq(s) == [j \in 1..Len(s) |-> MapF(s[j])]

FlatSeq(s) == Flatten([j \in 1..Len(s) |-> FlatF(s[j])])

\* The values next() has returned, in the order it returned them.
Delivered ==
    LET somes == SelectSeq(hist, IsSome)
    IN  [j \in 1..Len(somes) |-> somes[j].val]

Returned(j, v) == hist[j].tag = "some" /\ hist[j].val = v

\* The calls of next() so far returned the elements of vals, in order, and
\* then None.
ReturnedInOrder(vals) ==
    \A j \in 1..Len(hist) :
        IF j <= Len(vals) THEN Returned(j, vals[j]) ELSE hist[j].tag = "none"

Ended == NoneCount > 0

Ceil(a, b) == (a + b - 1) \div b

-----------------------------------------------------------------------------
\* C1: par_map over a source S with an f that returns for every item, a pool
\* of one thread or more: whatever the order in which the tasks end, the
\* calls of next() return f(S[0]), f(S[1]), ..., f(S[n-1]) in that order and
\* then None; nothing is lost, doubled or out of place.
C1_MapInSourceOrder ==
    (kind = "map" /\ NoPanic /\ num_threads >= 1) => ReturnedInOrder(MapSeq(src))

\* par_map has returned every result of a source longer than its queue, and
\* then None.
C1_Witness ==
    /\ kind = "map"
    /\ NoPanic
    /\ num_threads = 1
    /\ Len(src) = 3
    /\ src[1] # src[2]
    /\ Len(hist) = Len(src) + 1

\* C2: par_map and par_flat_map: in every state, the constructor's loop and
\* the inside of next() included, at most 2 * num_threads futures are in the
\* queue, whatever the length of the source.
C2_QueueBound ==
    kind \in {"map", "flat_map"} => Len(queue) <= 2 * num_threads

\* The queue is full again after a result was returned, with more of the
\* source to come.
C2_Witness ==
    /\ kind = "flat_map"
    /\ pc = "idle"
    /\ Len(hist) >= 1
    /\ Len(queue) = 2 * num_threads
    /\ Len(tasks) > 2 * num_threads
    /\ pos < Len(src)

\* C3: par_flat_map over S with an f that returns a finite sequence for every
\* item: the calls of next() return f(S[0]) ++ f(S[1]) ++ ... ++ f(S[n-1]),
\* in order across the tasks and within each sequence, empty sequences
\* included, and then None.
C3_FlatMapInSourceOrder ==
    (kind = "flat_map" /\ NoPanic) => ReturnedInOrder(FlatSeq(src))

\* par_flat_map has returned everything, over a source with an item of empty
\* expansion between two others.
C3_Witness ==
    /\ kind = "flat_map"
    /\ NoPanic
    /\ Len(src) = 3
    /\ FlatF(src[1]) # <<>>
    /\ FlatF(src[2]) = <<>>
    /\ FlatF(src[3]) # <<>>
    /\ Ended
    /\ Len(Delivered) = Len(FlatSeq(src))

\* C4: pack(nb), nb >= 1, over S: ceil(len(S) / nb) batches, each of nb items
\* but possibly the last, which has between 1 and nb; the batches put end to
\* end are S; no empty batch, and no batch at all over an empty source.
C4_PackBatches ==
    (kind = "pack" /\ nb >= 1) =>
        LET batches == Delivered
        IN  /\ ReturnedInOrder(batches)
            /\ \A j \in 1..Len(batches) :
                /\ Len(batches[j]) >= 1
                /\ Len(batches[j]) <= nb
                /\ j < Len(batches) => Len(batches[j]) = nb
            /\ IsPrefix(Flatten(batches), src)
            /\ Ended =>
                /\ Flatten(batches) = src
                /\ Len(batches) = Ceil(Len(src), nb)

\* pack(2) over three items has returned its two batches and None.
C4_Witness ==
    /\ kind = "pack"
    /\ nb = 2
    /\ Len(src) = 3
    /\ Ended
    /\ Len(Delivered) = 2
    /\ Len(Delivered[2]) = 1

\* C5: par_packed_map(nb, f), nb >= 1, over S with an f that returns for every
\* item: the calls of next() return what par_map(f) over S returns (C1), in
\* the same order, whatever the order in which the tasks end.
C5_PackedMapAsMap ==
    (kind = "packed_map" /\ nb >= 1 /\ NoPanic) => ReturnedInOrder(MapSeq(src))

\* par_packed_map(2, f) over three items, the last batch short, has returned
\* everything.
C5_Witness ==
    /\ kind = "packed_map"
    /\ nb = 2
    /\ NoPanic
    /\ Len(src) = 3
    /\ src[1] # src[2]
    /\ Len(tasks) = 2
    /\ Len(hist) = Len(src) + 1

\* C6: par_packed_flat_map(nb, f), nb >= 1, over S with an f that returns a
\* sequence for every item: the calls of next() return what par_flat_map(f)
\* over S returns (C3): the items' expansions put end to end, batch after
\* batch.
C6_PackedFlatMapAsFlatMap ==
    (kind = "packed_flat_map" /\ nb >= 1 /\ NoPanic) =>
        ReturnedInOrder(FlatSeq(src))

\* par_packed_flat_map(2, f) has returned everything, over four items of
\* which the second batch begins with an item of empty expansion.
C6_Witness ==
    /\ kind = "packed_flat_map"
    /\ nb = 2
    /\ NoPanic
    /\ Len(src) = 4
    /\ FlatF(src[1]) # <<>>
    /\ FlatF(src[2]) # <<>>
    /\ src[1] # src[2]
    /\ FlatF(src[3]) = <<>>
    /\ FlatF(src[4]) # <<>>
    /\ Ended
    /\ Len(Delivered) = Len(FlatSeq(src))

\* The first position of the source whose item makes f panic.
FirstPanic ==
    CHOOSE j \in 1..Len(src) :
        FPanics(src[j]) /\ \A u \in 1..(j - 1) : ~FPanics(src[u])

\* C7: par_map, f panicking on the item at position k (from 0) and on none
\* before: the first k calls of next() return f(S[0]), ..., f(S[k-1]); call
\* k + 1 panics, and none before it, even if task k ended before the earlier
\* ones; the panic is seen once: a later call panics only for a later item
\* on which f panics.
C7_MapPanicAtItsTurn ==
    (kind = "map" /\ ~NoPanic) =>
        \A j \in 1..Len(hist) :
            /\ j < FirstPanic => Returned(j, MapF(src[j]))
            /\ j = FirstPanic => hist[j].tag = "panic"
            /\ (j > FirstPanic /\ hist[j].tag = "panic") =>
                    (j <= Len(src) /\ FPanics(src[j]))

\* The third call of next() has panicked, the first two having returned
\* their results, and the calls went on to None.
C7_Witness ==
    /\ kind = "map"
    /\ num_threads = 2
    /\ ~NoPanic
    /\ FirstPanic = 3
    /\ Len(src) = 4
    /\ Len(hist) = 5
    /\ hist[3].tag = "panic"
    /\ hist[4].tag = "some"

\* C10: par_map and par_flat_map: once the constructor has returned and
\* before any call of next(), min(2 * num_threads, len(S)) items have been
\* pulled from the source and the queue holds one future per item pulled,
\* in the order they were pulled.
C10_Prefill ==
    (kind \in {"map", "flat_map"} /\ pc = "idle" /\ hist = <<>>) =>
        /\ pos = Min(2 * num_threads, Len(src))
        /\ Len(tasks) = pos
        /\ queue = [j \in 1..pos |-> j]
        /\ \A j \in 1..pos : tasks[j].item = src[j]

\* par_flat_map has returned its adaptor over a source longer than the
\* queue.
C10_Witness ==
    /\ kind = "flat_map"
    /\ pc = "idle"
    /\ hist = <<>>
    /\ num_threads = 1
    /\ Len(src) = 3
    /\ Len(queue) = 2

\* C8: par_map over a source of n items with an f that returns for every
\* item, the pool's threads and the consumer going on: unless the adaptor is
\* dropped, the first n calls of next() each come to return a result and
\* call n + 1 returns None; and a call of next() returns None exactly when
\* the queue is empty as the call is made.
C8_MapTerminates ==
    /\ (kind = "map" /\ NoPanic) =>
            <>(\/ pc = "dropped"
               \/ /\ Len(hist) > Len(src)
                  /\ \A j \in 1..Len(src) : hist[j].tag = "some"
                  /\ hist[Len(src) + 1].tag = "none")
    /\ [][(kind = "map" /\ Len(hist') = Len(hist) + 1) =>
            (hist'[Len(hist')].tag = "none" <=> (pc = "idle" /\ queue = <<>>))]_vars

\* Every call of next() over a source of four items has returned, the last
\* one None, with two threads in the pool.
C8_Witness ==
    /\ kind = "map"
    /\ NoPanic
    /\ num_threads = 2
    /\ Len(src) = 4
    /\ queue = <<>>
    /\ pc = "idle"
    /\ Len(hist) = 5
    /\ hist[5].tag = "none"

\* C9: the consumer drops the adaptor before the end: nothing is cancelled
\* that a thread is running: every closure a thread was running at the drop
\* stays with its thread and comes to its end, and next() returns nothing
\* any more: the result goes to nobody.
C9_RunningTasksFinishAfterDrop ==
    /\ [][/\ pc' = "dropped" =>
                \A t \in Running : tasks'[t].st \in {"running", "done", "panicked"}
          /\ pc = "dropped" => (hist' = hist /\ pc' = "dropped")]_vars
    /\ <>[](\A t \in runningAtDrop : Finished(t))

\* A closure that was running when the adaptor was dropped has returned, its
\* future still in the dropped queue.
C9_Witness ==
    /\ pc = "dropped"
    /\ Len(hist) < Len(src)
    /\ \E t \in runningAtDrop :
        /\ tasks[t].st = "done"
        /\ \E j \in 1..Len(queue) : queue[j] = t


-----------------------------------------------------------------------------
\* The calls of next() that panicked.
PanicCount == Len(SelectSeq(hist, LAMBDA e : e.tag = "panic"))

\* The futures popped from the queue so far.
Dequeued == Len(tasks) - Len(queue)

\* The calls of spawn() so far: one per round of the constructor's loop, and
\* one per future whose wait() returned a result.
SpawnCalls ==
    round + (Dequeued - (IF pc = "wait" THEN 1 ELSE 0) - PanicCount)

\* A call of spawn() got None from the source: it pushed no future.
SourceReportedEnd == SpawnCalls > Len(tasks)

\* The calls of next() that took a future: those that returned a result or
\* panicked.
CallsServed == Len(hist) - NoneCount

\* Between two calls of next() on par_map, as C11 has it: the queue is full
\* or the source has reported its end, and from then on the queue has lost
\* one future per call served.
C11_BetweenCalls ==
    (kind = "map" /\ pc = "idle") =>
        /\ Len(queue) = 2 * num_threads \/ SourceReportedEnd
        /\ SourceReportedEnd => Len(queue) = Len(tasks) - CallsServed

\* C11: par_map, between two calls of next(): the queue holds exactly
\* 2 * num_threads futures or the source has reported its end; once it has,
\* the queue never grows, and shrinks by one per result returned, down to 0.
C11_QueueFullOrDraining ==
    [][/\ C11_BetweenCalls'
       /\ (kind = "map" /\ SourceReportedEnd) => Len(queue') <= Len(queue)]_vars


-----------------------------------------------------------------------------
\* The t-th item the adaptor's iterator yields: the t-th item of the source,
\* or, for the packed adaptors, its t-th batch.
PulledItem(t) ==
    IF kind \in {"packed_map", "packed_flat_map"}
    THEN SubSeq(src, (t - 1) * nb + 1, Min(t * nb, Len(src)))
    ELSE src[t]

\* The items the adaptor's iterator has yielded so far.
Pulled ==
    IF kind \in {"packed_map", "packed_flat_map"}
    THEN (IF nb = 0 THEN 0 ELSE Ceil(pos, nb))
    ELSE pos

\* C12: par_map, par_flat_map and the packed adaptors, in every state: the
\* queue holds the futures of the pulled items d+1 .. p, in that order, d
\* being the number of futures popped so far and p the number of items
\* pulled; a future is pushed at the back and popped at the front only, so
\* the i-th future popped, the one next() waits on, is the i-th item's.
C12_QueueIsPulledRange ==
    kind # "pack" =>
        /\ Len(tasks) = Pulled
        /\ \A t \in TaskIds : tasks[t].item = PulledItem(t)
        /\ queue = [j \in 1..Len(queue) |-> Dequeued + j]
        /\ pc = "wait" => fut = Dequeued /\ tasks[fut].item = PulledItem(Dequeued)

\* next() waits on the second future, the queue refilled behind it.
C12_Witness ==
    /\ kind = "flat_map"
    /\ pc = "wait"
    /\ Dequeued = 2
    /\ Len(queue) = 1
    /\ Len(tasks) > 2 * num_threads
    /\ src[2] # src[3]


-----------------------------------------------------------------------------
\* What the t-th task gave to cur_iter: its Vec, or nothing if it panicked.
TaskVec(t) ==
    IF TaskPanics(tasks[t].item) THEN <<>> ELSE TaskResult(tasks[t].item)

\* The futures whose wait() has returned or panicked.
Awaited == Dequeued - (IF pc = "wait" THEN 1 ELSE 0)

\* What next() has returned and what cur_iter still holds are, end to end,
\* the Vecs of the futures awaited so far.
CursorFollowsTasks ==
    Delivered \o cur_iter = Flatten([t \in 1..Awaited |-> TaskVec(t)])

\* C13: par_flat_map and the packed adaptors: a future is popped only when
\* cur_iter is exhausted, so every element of a task's Vec is returned before
\* the next task's future is popped; and next() returns None only with
\* cur_iter and the queue both empty.
C13_PopOnlyWhenCursorEmpty ==
    [][IsFlat =>
        /\ Dequeued' > Dequeued => cur_iter = <<>>
        /\ pc' = "wait" => cur_iter' = <<>>
        /\ CursorFollowsTasks'
        /\ NoneCount' > NoneCount => cur_iter' = <<>> /\ queue' = <<>>]_vars

\* next() has popped the second future after it returned the two elements of
\* the first task's Vec.
C13_Witness ==
    /\ kind = "flat_map"
    /\ pc = "wait"
    /\ fut = 2
    /\ Len(FlatF(src[1])) = 2
    /\ Delivered = FlatF(src[1])


-----------------------------------------------------------------------------
\* Pulled, submitted, popped and queued, as C14 counts them: every item
\* pulled is one task, at most one task was submitted per future awaited
\* beyond the constructor's, and between two calls of par_map's next() the
\* tasks are those of the calls served and those of the queue.
C14_Counts ==
    /\ pos = Len(tasks)
    /\ Len(tasks) <= 2 * num_threads + Awaited
    /\ Len(queue) <= 2 * num_threads
    /\ (kind = "map" /\ pc = "idle") => Len(tasks) = CallsServed + Len(queue)

\* A step of par_map or par_flat_map keeps the counts, and submits a task,
\* once the adaptor is built, only from a wait() that returned a result: one
\* task, for the one item it pulls.
C14_Step ==
    kind \in {"map", "flat_map"} =>
        /\ C14_Counts'
        /\ (pc # "construct" /\ Len(tasks') # Len(tasks)) =>
            /\ pc = "wait"
            /\ Finished(fut)
            /\ ~WaitPanics(fut)
            /\ Len(tasks') = Len(tasks) + 1
            /\ pos' = pos + 1
            /\ src[pos'] = tasks'[Len(tasks')].item
            /\ SubSeq(tasks', 1, Len(tasks)) = tasks

\* C14: par_map and par_flat_map: once built, the adaptor submits a task
\* only right after it popped a future and its wait() returned, one at most
\* per future popped, and every item pulled from the source is submitted as
\* one task; so between calls of next() items pulled = tasks submitted =
\* futures popped + length of the queue, and at most 2 * num_threads items
\* are pulled ahead of the consumer.
C14_OneSpawnPerAwaitedFuture == [][C14_Step]_vars

\* par_map with one thread, between two calls: two results returned, two
\* tasks submitted after the constructor's two, the queue full.
C14_Witness ==
    /\ kind = "map"
    /\ pc = "idle"
    /\ num_threads = 1
    /\ CallsServed = 2
    /\ Len(queue) = 2
    /\ pos = 4


-----------------------------------------------------------------------------
\* C15: par_packed_map(nb, f), nb >= 1, f panicking on the item at position
\* k and on none before: the results of the items before k are returned, in
\* order, before the panic is seen.
C15_PackedMapDeliversBeforePanic ==
    (kind = "packed_map" /\ nb >= 1 /\ ~NoPanic) =>
        \A j \in 1..Len(hist) :
            /\ j < FirstPanic => Returned(j, MapF(src[j]))
            /\ hist[j].tag = "panic" => j >= FirstPanic


-----------------------------------------------------------------------------
\* The consumer of par_map cannot take a step: it is blocked.
ConsumerBlocked == ~ENABLED MapConsumer

\* C16: par_map: the consumer is blocked in next() only while the future it
\* popped, the oldest, is unfinished; once that task has ended next() returns
\* whether or not a later task has, and spawn() never blocks: the
\* constructor's loop and the spawn() of next() go through whatever the state
\* of the pool.
C16_BlocksOnlyOnFront ==
    kind = "map" =>
        /\ (pc = "wait" /\ Finished(fut)) => ENABLED MapNextWait
        /\ (pc = "wait" /\ ~Finished(fut)) => ConsumerBlocked
        /\ (pc = "idle" /\ queue # <<>>) => ENABLED MapNext
        /\ pc = "construct" => ENABLED (ParMap \/ ParMapReturn)
        /\ (ConsumerBlocked /\ queue # <<>>) => (pc = "wait" /\ ~Finished(fut))

\* next() waits on a future whose task has ended while the task submitted
\* after it is still running and the one after that has not started.
C16_Witness ==
    /\ kind = "map"
    /\ pc = "wait"
    /\ Finished(fut)
    /\ Len(queue) >= 2
    /\ tasks[queue[1]].st = "running"
    /\ tasks[queue[2]].st = "queued"


-----------------------------------------------------------------------------
\* The tasks C17 counts for a source fully consumed: one per item for
\* par_map, one per batch for the packed adaptors.
C17_TasksWhenConsumed ==
    IF kind = "map" THEN Len(src) ELSE Ceil(Len(src), nb)

\* C17: a finite source of n items, nb >= 1: consumed to its None,
\* par_packed_map and par_packed_flat_map have submitted ceil(n / nb) tasks,
\* one per batch, and par_map n; the queue of the packed adaptors never holds
\* more than 2 * num_threads futures.
C17_OneTaskPerBatch ==
    /\ (kind \in {"packed_map", "packed_flat_map"} /\ nb >= 1) =>
            Len(queue) <= 2 * num_threads
    /\ (/\ kind \in {"map", "packed_map", "packed_flat_map"}
        /\ kind # "map" => nb >= 1
        /\ Ended) => Len(tasks) = C17_TasksWhenConsumed


-----------------------------------------------------------------------------
-----------------------------------------------------------------------------
\* C19: nb = 0: pack(0) returns None at its first call of next() and pulls
\* nothing from the source, empty or not; so par_packed_map(0, f) and
\* par_packed_flat_map(0, f) return no element, submit no task and never
\* call f: the input is dropped without an error.
C19_PackZeroYieldsNothing ==
    (kind \in {"pack", "packed_map", "packed_flat_map"} /\ nb = 0) =>
        /\ pos = 0
        /\ tasks = <<>>
        /\ queue = <<>>
        /\ cur_iter = <<>>
        /\ pc # "wait"
        /\ \A j \in 1..Len(hist) : hist[j].tag = "none"

\* par_packed_map(0, f) has returned None over a source of two items, on the
\* first of which f would have panicked.
C19_Witness ==
    /\ kind = "packed_map"
    /\ nb = 0
    /\ Len(src) = 2
    /\ FPanics(src[1])
    /\ Ended
    /\ pos = 0


-----------------------------------------------------------------------------
\* Once next() has returned None, a step returns None if it returns at all,
\* and leaves the source, the tasks and the queue as they are.
C20_StepAfterEnd ==
    (kind \in {"map", "flat_map"} /\ Ended) =>
        /\ hist' # hist => hist' = Append(hist, NoneEv)
        /\ pos' = pos
        /\ tasks' = tasks
        /\ queue' = queue
        /\ cur_iter' = cur_iter

\* C20: par_map and par_flat_map: once next() has returned None every later
\* call returns None, pulls nothing from the source and submits no task: the
\* adaptor is fused, even over a source that would yield items again after
\* its None.
C20_FusedAfterEnd == [][C20_StepAfterEnd]_vars

\* par_map has returned None twice while the source, not fused, has an item
\* to yield at its next call.
C20_Witness ==
    /\ kind = "map"
    /\ NoneCount = 2
    /\ pos < Len(src)
    /\ src[pos + 1] # Gap
    /\ NoPanic
    /\ \E j \in 1..pos : src[j] = Gap
    /\ queue = <<>>

=============================================================================
